---- MODULE Spec2Model ----
(***************************************************************************)
(* Model of the suggestions.mention handler of                             *)
(* server/routes/api/suggestions/suggestions.ts: the directory-isolation   *)
(* decision, the user and group predicates, the Promise.all fan-out of the *)
(* four lookups and the assembly of the response body.                     *)
(*                                                                         *)
(* Text is a sequence of one-character strings, so that LOWER, unaccent    *)
(* and LIKE are computed character by character.                           *)
(***************************************************************************)
EXTENDS Integers, Sequences, FiniteSets, TLC

\* ------------------------------------------------------------------ bounds

\* Largest pagination offset of a request.
MaxOffset == 1

\* Largest pagination limit of a request (the limit is always positive).
MaxLimit == 2

\* How many times the same request is sent against the unchanged data.
MaxRequests == 2

\* ------------------------------------------------------- the stored tables

\* An absent query: `%${query}%` renders it as the text "undefined".
NoQuery == <<"undefined">>

\* actor.team is absent.
NoTeam == "noteam"

Roles == {"Admin", "Member", "Viewer", "Guest"}

\* actor.team?.getPreference(RestrictExternalDirectory): the team is absent,
\* or the preference is not set, or it is set to false or to true.
Preferences == {NoTeam, "unset", "false", "true"}

\* The users table: U1 and U2 share a name, U3 carries a diacritic, U4 is
\* suspended, U5 belongs to another team, U6 has a '%' in its name.
Users ==
  { [id |-> "U1", teamId |-> "T1", suspended |-> FALSE,
     name |-> <<"A", "n">>, email |-> <<"a", "@", "x">>],
    [id |-> "U2", teamId |-> "T1", suspended |-> FALSE,
     name |-> <<"A", "n">>, email |-> <<"b", "@", "x">>],
    [id |-> "U3", teamId |-> "T1", suspended |-> FALSE,
     name |-> <<"J", "o", "s", "é">>, email |-> <<"j", "@", "x">>],
    [id |-> "U4", teamId |-> "T1", suspended |-> TRUE,
     name |-> <<"B", "o">>, email |-> <<"o", "@", "x">>],
    [id |-> "U5", teamId |-> "T2", suspended |-> FALSE,
     name |-> <<"C", "y">>, email |-> <<"c", "@", "x">>],
    [id |-> "U6", teamId |-> "T1", suspended |-> FALSE,
     name |-> <<"5", "%">>, email |-> <<"s", "@", "x">>] }

\* The groups table: G1 and G3 share a name, G2 has mentions disabled,
\* G4 belongs to another team.
Groups ==
  { [id |-> "G1", teamId |-> "T1", disableMentions |-> FALSE,
     name |-> <<"D", "e", "v">>],
    [id |-> "G2", teamId |-> "T1", disableMentions |-> TRUE,
     name |-> <<"O", "p", "s">>],
    [id |-> "G3", teamId |-> "T1", disableMentions |-> FALSE,
     name |-> <<"D", "e", "v">>],
    [id |-> "G4", teamId |-> "T2", disableMentions |-> FALSE,
     name |-> <<"É", "x">>] }

\* The group_users table.
GroupUsers ==
  { [groupId |-> "G1", userId |-> "U1"],
    [groupId |-> "G2", userId |-> "U1"],
    [groupId |-> "G1", userId |-> "U2"],
    [groupId |-> "G3", userId |-> "U2"],
    [groupId |-> "G3", userId |-> "U3"],
    [groupId |-> "G1", userId |-> "U4"],
    [groupId |-> "G4", userId |-> "U5"] }

UserIds == {u.id : u \in Users}

\* The users that send the request: members of two, one and no groups,
\* of either team, and a suspended one.
Actors == {"U1", "U2", "U4", "U5", "U6"}
GroupIds == {g.id : g \in Groups}

UserById(id) == CHOOSE u \in Users : u.id = id

\* The request bodies tried: no query, the empty query, and query strings
\* with and without LIKE pattern characters.
Queries ==
  { NoQuery, <<>>, <<"j", "o", "s", "e">>, <<"%">>, <<"_">>, <<"D", "É">> }

\* ------------------------------------------------------------ text matching

\* LOWER of one character.
Lower(c) ==
  CASE c = "A" -> "a"
    [] c = "B" -> "b"
    [] c = "C" -> "c"
    [] c = "D" -> "d"
    [] c = "J" -> "j"
    [] c = "O" -> "o"
    [] c = "É" -> "é"
    [] OTHER -> c

\* unaccent of one character.
Unaccent(c) ==
  CASE c = "é" -> "e"
    [] c = "É" -> "E"
    [] OTHER -> c

\* unaccent(LOWER(text))
Normalize(text) == [i \in 1..Len(text) |-> Unaccent(Lower(text[i]))]

\* `%${query}%`
Replacement(q) == <<"%">> \o q \o <<"%">>

\* text LIKE pattern: '%' matches any run of characters, '_' any one.
RECURSIVE Like(_, _)
Like(text, pattern) ==
  IF pattern = <<>> THEN text = <<>>
  ELSE IF Head(pattern) = "%"
    THEN \/ Like(text, Tail(pattern))
         \/ text # <<>> /\ Like(Tail(text), pattern)
  ELSE /\ text # <<>>
       /\ Head(pattern) = "_" \/ Head(pattern) = Head(text)
       /\ Like(Tail(text), Tail(pattern))

\* unaccent(LOWER(column)) like unaccent(LOWER(:query))
TextLiteral(column, q) == Like(Normalize(column), Normalize(Replacement(q)))

\* if (query): undefined and the empty string are falsy.
Truthy(q) == q # NoQuery /\ q # <<>>

\* ------------------------------------------------------------- predicates

\* Variant: the role test is left out, the preference alone restricts.
RestrictDirectoryAnyRole(role, preference) == preference = "true"

\* (actor.isViewer || actor.isGuest) && !!actor.team?.getPreference(...)
RestrictDirectory(role, preference) ==
  /\ role = "Viewer" \/ role = "Guest"
  /\ preference = "true"

\* The id clause of a where object: absent, id = value, or id IN values.
NoId == [op |-> "none", values |-> {}]
IdEq(id) == [op |-> "eq", values |-> {id}]
IdIn(ids) == [op |-> "in", values |-> ids]

\* Variant: the suspendedAt clause is left out of the base userWhere.
UserWhereBaseWithSuspended(teamId) ==
  [teamId |-> teamId, suspendedAt |-> "any", text |-> FALSE, id |-> NoId]

\* let userWhere = { teamId: actor.teamId, suspendedAt: { [Op.eq]: null } }
UserWhereBase(teamId) ==
  [teamId |-> teamId, suspendedAt |-> "null", text |-> FALSE, id |-> NoId]

\* Variant: the disableMentions clause is left out of the base groupWhere.
GroupWhereBaseWithDisabled(teamId) ==
  [teamId |-> teamId, disableMentions |-> "any", text |-> FALSE, id |-> NoId]

\* let groupWhere = { teamId: actor.teamId, disableMentions: false }
GroupWhereBase(teamId) ==
  [teamId |-> teamId, disableMentions |-> "false", text |-> FALSE, id |-> NoId]

\* if (query) { where = { ...where, [Op.and]: <the like literals> } }
WithText(where, q) == IF Truthy(q) THEN [where EXCEPT !.text = TRUE] ELSE where

\* [...new Set(groupUsers.map((gu) => gu.userId)), actor.id]
AllowedUserIds(rows, actorId) == {gu.userId : gu \in rows} \cup {actorId}

\* Variant: the membership lookup without its where clause.
GroupUserRowsUnfiltered(groupIds) == GroupUsers

\* GroupUser.findAll({ where: { groupId: { [Op.in]: actorGroupIds } } })
GroupUserRows(groupIds) == {gu \in GroupUsers : gu.groupId \in groupIds}

\* Variant: the no-groups branch is missing, so an actor without groups
\* falls through to the unscoped userWhere.
ScopeUserWhereFailOpen(where, restricted, groupIds, allowed, actorId) ==
  IF restricted /\ Cardinality(groupIds) > 0
    THEN [where EXCEPT !.id = IdIn(allowed)]
  ELSE where

\* The scoping of userWhere: in the group-scoped branch id IN allowedUserIds,
\* in the no-groups branch id = actor.id, otherwise userWhere as it is.
ScopeUserWhere(where, restricted, groupIds, allowed, actorId) ==
  IF restricted /\ Cardinality(groupIds) > 0
    THEN [where EXCEPT !.id = IdIn(allowed)]
  ELSE IF restricted /\ Cardinality(groupIds) = 0
    THEN [where EXCEPT !.id = IdEq(actorId)]
  ELSE where

\* The scoping of groupWhere: id IN actorGroupIds, or id IN [] when the
\* actor has no groups, otherwise groupWhere as it is.
ScopeGroupWhere(where, restricted, groupIds) ==
  IF restricted /\ Cardinality(groupIds) > 0
    THEN [where EXCEPT !.id = IdIn(groupIds)]
  ELSE IF restricted /\ Cardinality(groupIds) = 0
    THEN [where EXCEPT !.id = IdIn({})]
  ELSE where

\* Whether a row's id satisfies the id clause of a where object.
IdSatisfies(id, clause) == clause.op = "none" \/ id \in clause.values

\* The rows of users that satisfy userWhere under the replacement :query.
UserRows(where, q) ==
  { u \in Users :
      /\ u.teamId = where.teamId
      /\ where.suspendedAt = "null" => ~u.suspended
      /\ where.text => TextLiteral(u.email, q) \/ TextLiteral(u.name, q)
      /\ IdSatisfies(u.id, where.id) }

\* The rows of groups that satisfy groupWhere under the replacement :query.
GroupRows(where, q) ==
  { g \in Groups :
      /\ g.teamId = where.teamId
      /\ where.disableMentions = "false" => ~g.disableMentions
      /\ where.text => TextLiteral(g.name, q)
      /\ IdSatisfies(g.id, where.id) }

\* ------------------------------------------------- ordering and pagination

\* The collation order of the characters in use.
Collation ==
  << "%", "@", "_", "5", "a", "A", "b", "B", "c", "C", "d", "D", "e", "é",
     "E", "É", "j", "J", "n", "o", "O", "p", "s", "v", "x", "y" >>

Rank(c) == CHOOSE i \in 1..Len(Collation) : Collation[i] = c

\* name1 < name2 in ORDER BY name ASC.
RECURSIVE NameBefore(_, _)
NameBefore(a, b) ==
  IF b = <<>> THEN FALSE
  ELSE IF a = <<>> THEN TRUE
  ELSE IF Head(a) = Head(b) THEN NameBefore(Tail(a), Tail(b))
  ELSE Rank(Head(a)) < Rank(Head(b))

\* order: [["name", "ASC"]] names no second key, so rows of equal name come
\* in any order: every sequence of the rows that the order allows.
RECURSIVE NameOrders(_)
NameOrders(rows) ==
  IF rows = {} THEN {<<>>}
  ELSE UNION { {<<r>> \o rest : rest \in NameOrders(rows \ {r})} :
                 r \in {m \in rows : \A o \in rows : ~NameBefore(o.name, m.name)} }

\* Variant: the offset is not passed on, only the limit.
WindowWithoutOffset(rows, off, lim) ==
  SubSeq(rows, 1, IF lim > Len(rows) THEN Len(rows) ELSE lim)

\* OFFSET off LIMIT lim of an ordered result.
Window(rows, off, lim) ==
  IF off >= Len(rows) THEN <<>>
  ELSE SubSeq(rows, off + 1, IF off + lim > Len(rows) THEN Len(rows) ELSE off + lim)

\* Model.findAll({ where, order: [["name", "ASC"]], offset, limit }): the
\* results the store may return.
FindAll(rows, off, lim) == {Window(ord, off, lim) : ord \in NameOrders(rows)}

\* ------------------------------------------------------- the collaborators

\* actor.groupIds(): the ids of the groups the actor is a member of.
GroupIdsOf(actorId) == {gu.groupId : gu \in {m \in GroupUsers : m.userId = actorId}}

\* The published documents and the collections each team's search returns,
\* in the search's own order.
TeamDocuments(teamId) == IF teamId = "T1" THEN <<"D1", "D2", "D3">> ELSE <<"D4">>
TeamCollections(teamId) == IF teamId = "T1" THEN <<"C1", "C2">> ELSE <<>>

\* SearchHelper.searchTitlesForUser(actor, { query, offset, limit, statusFilter })
SearchTitlesForUser(teamId, q, off, lim) ==
  Window(IF Truthy(q) THEN <<>> ELSE TeamDocuments(teamId), off, lim)

\* SearchHelper.searchCollectionsForUser(actor, { query, offset, limit })
SearchCollectionsForUser(teamId, q, off, lim) ==
  Window(IF Truthy(q) THEN <<>> ELSE TeamCollections(teamId), off, lim)

\* can(actor, "readEmail" | "readDetails", user)
Can(actorId, actorRole, capability, u) ==
  IF capability = "readEmail"
    THEN actorRole = "Admin" \/ u.id = actorId
    ELSE actorRole # "Guest" \/ u.id = actorId

\* presentUser(user, { includeEmail, includeDetails })
PresentUser(u, includeEmail, includeDetails) ==
  [id |-> u.id, name |-> u.name,
   email |-> IF includeEmail THEN u.email ELSE <<>>,
   details |-> includeDetails]

\* presentGroup(group)
PresentGroup(g) == [id |-> g.id, name |-> g.name]

\* ------------------------------------------------------------------- state

Scope == {"groupIds", "groupUsers"}
FanOut == {"documents", "users", "groups", "collections"}
Lookups == Scope \cup FanOut

VARIABLES
  actor,             \* ctx.state.auth.user.id
  role,              \* the actor's role
  preference,        \* the team's RestrictExternalDirectory preference
  query,             \* ctx.input.body.query
  pagination,        \* ctx.state.pagination
  pc,                \* where the handler stands
  restrictDirectory,
  actorGroupIds,
  userWhere,
  groupWhere,
  lookup,            \* the state of each lookup's promise
  issued,            \* how many times each lookup was issued
  result,            \* what each fulfilled fan-out lookup returned
  body,              \* the values assigned to ctx.body, in order
  request,           \* the number of the request being handled
  previous           \* ctx.body of the request before this one

inputs == <<actor, role, preference, query, pagination>>
handler == <<pc, restrictDirectory, actorGroupIds, userWhere, groupWhere,
             lookup, issued, result, body>>
vars == <<inputs, handler, request, previous>>

teamId == UserById(actor).teamId
offset == pagination.offset
limit == pagination.limit

\* The handler before its first statement.
Fresh ==
  /\ pc = "start"
  /\ restrictDirectory = FALSE
  /\ actorGroupIds = {}
  /\ userWhere = UserWhereBase(teamId)
  /\ groupWhere = GroupWhereBase(teamId)
  /\ lookup = [l \in Lookups |-> "idle"]
  /\ issued = [l \in Lookups |-> 0]
  /\ result = [l \in FanOut |-> <<>>]
  /\ body = <<>>

Init ==
  /\ actor \in Actors
  /\ role \in Roles
  /\ preference \in Preferences
  /\ query \in Queries
  /\ pagination \in [offset : 0..MaxOffset, limit : 1..MaxLimit]
  /\ request = 1
  /\ previous = <<>>
  /\ Fresh

\* ----------------------------------------------------------------- promises

\* Variant: Promise.allSettled, fulfilled once no lookup is pending and
\* never rejected.
PromiseAllSettled(st) ==
  IF \A l \in FanOut : st[l] \in {"ok", "failed"} THEN "fulfilled" ELSE "pending"

\* Variant: Promise.race, settled by the first lookup that settles.
PromiseRace(st) ==
  IF \E l \in FanOut : st[l] = "failed" THEN "rejected"
  ELSE IF \E l \in FanOut : st[l] = "ok" THEN "fulfilled"
  ELSE "pending"

\* Promise.all over the four fan-out lookups: rejected as soon as one is
\* rejected, fulfilled once all four are fulfilled, pending otherwise.
PromiseAll(st) ==
  IF \E l \in FanOut : st[l] = "failed" THEN "rejected"
  ELSE IF \A l \in FanOut : st[l] = "ok" THEN "fulfilled"
  ELSE "pending"

\* A lookup is called: its promise is pending.
Issue(ls) ==
  /\ lookup' = [l \in Lookups |-> IF l \in ls THEN "pending" ELSE lookup[l]]
  /\ issued' = [l \in Lookups |-> IF l \in ls THEN issued[l] + 1 ELSE issued[l]]

\* The where objects of lines 40-76, before any scoping.
UserWhereUnscoped == WithText(UserWhereBase(teamId), query)
GroupWhereUnscoped == WithText(GroupWhereBase(teamId), query)

\* Lines 79-145 once the scope is known: the two where objects are scoped
\* and the four lookups of the Promise.all array are called.
ScopeAndFanOut(restricted, groupIds, allowed) ==
  /\ userWhere' = ScopeUserWhere(UserWhereUnscoped, restricted, groupIds,
                                 allowed, actor)
  /\ groupWhere' = ScopeGroupWhere(GroupWhereUnscoped, restricted, groupIds)
  /\ Issue(FanOut)
  /\ pc' = "all"

\* ------------------------------------------------------------------ actions

\* The handler runs from its first statement to its first await: to
\* actor.groupIds() when the directory is restricted, and otherwise
\* straight to the Promise.all of the four lookups.
Begin ==
  /\ pc = "start"
  /\ restrictDirectory' = RestrictDirectory(role, preference)
  /\ IF restrictDirectory'
       THEN /\ Issue({"groupIds"})
            /\ pc' = "groupIds"
            /\ UNCHANGED <<userWhere, groupWhere>>
       ELSE ScopeAndFanOut(FALSE, {}, {})
  /\ UNCHANGED <<inputs, actorGroupIds, result, body, request, previous>>

\* actor.groupIds() is fulfilled: with groups the handler goes on to
\* GroupUser.findAll, without groups to the no-groups branch and the fan-out.
GroupIdsFulfilled ==
  /\ pc = "groupIds"
  /\ lookup["groupIds"] = "pending"
  /\ actorGroupIds' = GroupIdsOf(actor)
  /\ IF Cardinality(actorGroupIds') > 0
       THEN /\ userWhere' = UserWhereUnscoped
            /\ groupWhere' = GroupWhereUnscoped
            /\ lookup' = [lookup EXCEPT !["groupIds"] = "ok", !["groupUsers"] = "pending"]
            /\ issued' = [issued EXCEPT !["groupUsers"] = @ + 1]
            /\ pc' = "groupUsers"
       ELSE /\ userWhere' = ScopeUserWhere(UserWhereUnscoped, restrictDirectory,
                                           actorGroupIds', {}, actor)
            /\ groupWhere' = ScopeGroupWhere(GroupWhereUnscoped, restrictDirectory,
                                             actorGroupIds')
            /\ lookup' = [l \in Lookups |->
                            IF l \in FanOut THEN "pending"
                            ELSE IF l = "groupIds" THEN "ok" ELSE lookup[l]]
            /\ issued' = [l \in Lookups |->
                            IF l \in FanOut THEN issued[l] + 1 ELSE issued[l]]
            /\ pc' = "all"
  /\ UNCHANGED <<inputs, restrictDirectory, result, body, request, previous>>

\* GroupUser.findAll is fulfilled: the where objects are scoped to the
\* actor's groups and the four lookups are called.
GroupUsersFulfilled ==
  /\ pc = "groupUsers"
  /\ lookup["groupUsers"] = "pending"
  /\ userWhere' = ScopeUserWhere(userWhere, restrictDirectory, actorGroupIds,
                                 AllowedUserIds(GroupUserRows(actorGroupIds), actor),
                                 actor)
  /\ groupWhere' = ScopeGroupWhere(groupWhere, restrictDirectory, actorGroupIds)
  /\ lookup' = [l \in Lookups |->
                  IF l \in FanOut THEN "pending"
                  ELSE IF l = "groupUsers" THEN "ok" ELSE lookup[l]]
  /\ issued' = [l \in Lookups |-> IF l \in FanOut THEN issued[l] + 1 ELSE issued[l]]
  /\ pc' = "all"
  /\ UNCHANGED <<inputs, restrictDirectory, actorGroupIds, result, body,
                 request, previous>>

\* An awaited scope lookup is rejected: the handler throws.
ScopeRejected ==
  /\ \E l \in Scope :
       /\ pc = l
       /\ lookup[l] = "pending"
       /\ lookup' = [lookup EXCEPT ![l] = "failed"]
  /\ pc' = "failed"
  /\ UNCHANGED <<inputs, restrictDirectory, actorGroupIds, userWhere,
                 groupWhere, issued, result, body, request, previous>>

\* A fan-out lookup is fulfilled with rows, while the handler awaits the
\* Promise.all (once the handler has thrown nothing reads the others).
Fulfilled(l, rows) ==
  /\ pc = "all"
  /\ lookup[l] = "pending"
  /\ lookup' = [lookup EXCEPT ![l] = "ok"]
  /\ result' = [result EXCEPT ![l] = rows]
  /\ UNCHANGED <<inputs, pc, restrictDirectory, actorGroupIds, userWhere,
                 groupWhere, issued, body, request, previous>>

DocumentsFulfilled ==
  Fulfilled("documents", SearchTitlesForUser(teamId, query, offset, limit))

UsersFulfilled ==
  \E rows \in FindAll(UserRows(userWhere, query), offset, limit) :
    Fulfilled("users", [i \in 1..Len(rows) |-> rows[i].id])

GroupsFulfilled ==
  \E rows \in FindAll(GroupRows(groupWhere, query), offset, limit) :
    Fulfilled("groups", [i \in 1..Len(rows) |-> rows[i].id])

CollectionsFulfilled ==
  Fulfilled("collections", SearchCollectionsForUser(teamId, query, offset, limit))

\* A fan-out lookup is rejected; when that rejects the awaited Promise.all
\* the handler throws.
FanOutRejected ==
  /\ pc = "all"
  /\ \E l \in FanOut :
       /\ lookup[l] = "pending"
       /\ lookup' = [lookup EXCEPT ![l] = "failed"]
  /\ pc' = IF PromiseAll(lookup') = "rejected" THEN "failed" ELSE pc
  /\ UNCHANGED <<inputs, restrictDirectory, actorGroupIds, userWhere,
                 groupWhere, issued, result, body, request, previous>>

\* The awaited Promise.all is fulfilled: the handler goes on to ctx.body's
\* object literal and awaits the presented documents.
Joined ==
  /\ pc = "all"
  /\ PromiseAll(lookup) = "fulfilled"
  /\ pc' = "presentDocuments"
  /\ UNCHANGED <<inputs, restrictDirectory, actorGroupIds, userWhere,
                 groupWhere, lookup, issued, result, body, request, previous>>

\* The documents are presented; the users are mapped and the handler
\* awaits the presented groups.
DocumentsPresented ==
  /\ pc = "presentDocuments"
  /\ pc' = "presentGroups"
  /\ UNCHANGED <<inputs, restrictDirectory, actorGroupIds, userWhere,
                 groupWhere, lookup, issued, result, body, request, previous>>

\* The object assigned to ctx.body.
Envelope ==
  [pagination |-> pagination,
   data |->
     [documents |-> result["documents"],
      users |-> [i \in 1..Len(result["users"]) |->
                   PresentUser(UserById(result["users"][i]),
                               Can(actor, role, "readEmail", UserById(result["users"][i])),
                               Can(actor, role, "readDetails", UserById(result["users"][i])))],
      groups |-> [i \in 1..Len(result["groups"]) |->
                    PresentGroup(CHOOSE g \in Groups : g.id = result["groups"][i])],
      collections |-> result["collections"]]]

\* The groups are presented and ctx.body is assigned.
GroupsPresented ==
  /\ pc = "presentGroups"
  /\ body' = Append(body, Envelope)
  /\ pc' = "done"
  /\ UNCHANGED <<inputs, restrictDirectory, actorGroupIds, userWhere,
                 groupWhere, lookup, issued, result, request, previous>>

Next ==
  \/ Begin
  \/ GroupIdsFulfilled
  \/ GroupUsersFulfilled
  \/ ScopeRejected
  \/ DocumentsFulfilled
  \/ UsersFulfilled
  \/ GroupsFulfilled
  \/ CollectionsFulfilled
  \/ FanOutRejected
  \/ Joined
  \/ DocumentsPresented
  \/ GroupsPresented

Spec == Init /\ [][Next]_vars

\* --------------------------------------------------- the request repeated

\* The client sends the same request again once the handler has returned
\* or thrown; the stored tables are unchanged.
Repeat ==
  /\ pc \in {"done", "failed"}
  /\ request < MaxRequests
  /\ request' = request + 1
  /\ previous' = body
  /\ pc' = "start"
  /\ restrictDirectory' = FALSE
  /\ actorGroupIds' = {}
  /\ userWhere' = UserWhereBase(teamId)
  /\ groupWhere' = GroupWhereBase(teamId)
  /\ lookup' = [l \in Lookups |-> "idle"]
  /\ issued' = [l \in Lookups |-> 0]
  /\ result' = [l \in FanOut |-> <<>>]
  /\ body' = <<>>
  /\ UNCHANGED inputs

InitRepeat ==
  /\ Init
  /\ role \in {"Member", "Viewer"}
  /\ preference = "true"

NextRepeat == Next \/ Repeat

SpecRepeat == InitRepeat /\ [][NextRepeat]_vars

\* ------------------------------------------------------------ the response

\* The handler has returned with ctx.body assigned.
Returned == pc = "done" /\ Len(body) = 1

Range(seq) == {seq[i] : i \in 1..Len(seq)}

\* The ids of the users and of the groups in the response, in order.
ReturnedUserIds == [i \in 1..Len(body[1].data.users) |-> body[1].data.users[i].id]
ReturnedGroupIds == [i \in 1..Len(body[1].data.groups) |-> body[1].data.groups[i].id]

\* The directory restriction as the policy states it.
Restricted == role \in {"Viewer", "Guest"} /\ preference = "true"

\* The groups the actor is a member of, and the members of a set of groups.
MemberGroups == {g \in GroupIds : [groupId |-> g, userId |-> actor] \in GroupUsers}
MembersOf(gs) == {u \in UserIds : \E g \in gs : [groupId |-> g, userId |-> u] \in GroupUsers}

\* text contains sub as a literal substring.
Contains(text, sub) ==
  \E i \in 0..(Len(text) - Len(sub)) : SubSeq(text, i + 1, i + Len(sub)) = sub

\* The query pattern matches the user's name or email as the code matches.
QueryMatches(u) ==
  ~Truthy(query) \/ TextLiteral(u.email, query) \/ TextLiteral(u.name, query)

\* rows[off+1 .. off+lim], as far as rows reaches.
Slice(rows, off, lim) ==
  [i \in 1..(IF Len(rows) - off < 0 THEN 0
             ELSE IF Len(rows) - off < lim THEN Len(rows) - off ELSE lim) |->
     rows[off + i]]

Ids(rows) == [i \in 1..Len(rows) |-> rows[i].id]

\* ------------------------------------------------------------------ claims

\* C1 as stated: for a Viewer or Guest under the restriction who belongs to
\* no groups, the users returned are exactly {actor} and no groups are
\* returned, for every query and every offset/limit window.
C1_SelfExactlyForEveryQuery ==
  (Returned /\ Restricted /\ MemberGroups = {}) =>
    /\ Range(ReturnedUserIds) = {actor}
    /\ ReturnedGroupIds = <<>>

\* C1 amended: for a Viewer or Guest under the restriction who belongs to no
\* groups, the users returned are a subset of {actor}: exactly {actor} when
\* the actor is not suspended, the offset is 0 and the query is absent, empty
\* or matches the actor's name or email, and empty otherwise; no groups are
\* returned.
C1_SelfOnlyWhenNoGroups ==
  (Returned /\ Restricted /\ MemberGroups = {}) =>
    /\ ReturnedUserIds =
         IF offset = 0 /\ ~UserById(actor).suspended /\ QueryMatches(UserById(actor))
           THEN <<actor>> ELSE <<>>
    /\ ReturnedGroupIds = <<>>

\* A restricted actor without groups gets itself back under a query.
C1_Witness ==
  /\ Returned /\ Restricted /\ MemberGroups = {}
  /\ Truthy(query)
  /\ ReturnedUserIds = <<actor>>

\* C2: for a Viewer or Guest under the restriction with a non-empty group
\* set G, every user returned is the actor or a member of a group in G, and
\* every group returned is in G.
C2_ScopedToOwnGroups ==
  (Returned /\ Restricted /\ MemberGroups # {}) =>
    /\ Range(ReturnedUserIds) \subseteq MembersOf(MemberGroups) \cup {actor}
    /\ Range(ReturnedGroupIds) \subseteq MemberGroups

\* A restricted actor with groups gets a fellow member and a group back.
C2_Witness ==
  /\ Returned /\ Restricted /\ MemberGroups # {}
  /\ \E u \in Range(ReturnedUserIds) : u # actor
  /\ ReturnedGroupIds # <<>>

\* C3: the restriction is applied exactly when the role is Viewer or Guest
\* and the preference is truthy; for every other actor the user and group
\* predicates carry no id scoping, whatever the preference and the actor's
\* memberships are.
C3_RestrictionExactlyForExternals ==
  /\ pc # "start" => (restrictDirectory <=> Restricted)
  /\ lookup["users"] # "idle" =>
       /\ userWhere.id = NoId <=> ~Restricted
       /\ groupWhere.id = NoId <=> ~Restricted

\* A Member with groups, on a team with the preference on, is answered
\* from unscoped predicates.
C3_Witness ==
  /\ Returned
  /\ role = "Member" /\ preference = "true" /\ MemberGroups # {}
  /\ userWhere.id = NoId /\ groupWhere.id = NoId
  /\ ~(Range(ReturnedUserIds) \subseteq MembersOf(MemberGroups) \cup {actor})

\* C4: no group with disableMentions = true is among the groups returned,
\* in every scope and whether or not its name matches the query.
C4_NoDisabledGroups ==
  Returned =>
    \A g \in Groups : g.id \in Range(ReturnedGroupIds) => ~g.disableMentions

\* A restricted actor who is a member of a group with mentions disabled,
\* whose name the query matches, gets other groups back.
C4_Witness ==
  /\ Returned /\ Restricted
  /\ \E g \in Groups :
       g.id \in MemberGroups /\ g.disableMentions /\ TextLiteral(g.name, query)
  /\ Truthy(query)
  /\ ReturnedGroupIds # <<>>

\* C5: no suspended user is among the users returned, in every scope.
C5_NoSuspendedUsers ==
  Returned =>
    \A u \in Users : u.id \in Range(ReturnedUserIds) => ~u.suspended

\* A restricted actor whose group has a suspended member gets users back.
C5_Witness ==
  /\ Returned /\ Restricted
  /\ \E u \in Users : u.suspended /\ u.id \in MembersOf(MemberGroups)
  /\ ReturnedUserIds # <<>>

\* C6: if any lookup fails the request fails: ctx.body is never assigned,
\* so no envelope with only some entity types exists, and no lookup is
\* issued a second time.
C6_NoPartialResponse ==
  /\ (\E l \in Lookups : lookup[l] = "failed") => (body = <<>> /\ pc = "failed")
  /\ \A l \in Lookups : issued[l] <= 1

\* One fan-out lookup has failed after others were fulfilled.
C6_Witness ==
  /\ lookup["users"] = "failed"
  /\ lookup["documents"] = "ok" /\ lookup["groups"] = "ok"
  /\ pc = "failed"

\* C7: repeating the request with the same inputs against unchanged data
\* yields an identical envelope, with the same users and groups in the same
\* order, also when rows share a name.
C7_Idempotent ==
  (Returned /\ request > 1 /\ previous # <<>>) => body = previous

\* C8: the four fan-out lookups are issued together, the body is built only
\* after all four have completed, and the scope lookups complete before the
\* user and group lookups are issued.
C8_JoinBarrier ==
  /\ \/ \A l \in FanOut : lookup[l] = "idle" /\ issued[l] = 0
     \/ \A l \in FanOut : lookup[l] # "idle" /\ issued[l] = 1
  /\ (pc \in {"presentDocuments", "presentGroups", "done"} \/ body # <<>>) =>
       \A l \in FanOut : lookup[l] = "ok"
  /\ (lookup["users"] # "idle" /\ Restricted) =>
       /\ lookup["groupIds"] = "ok"
       /\ MemberGroups # {} => lookup["groupUsers"] = "ok"

\* The lookups complete out of order while the handler waits for the rest.
C8_Witness ==
  /\ pc = "all" /\ Restricted /\ MemberGroups # {}
  /\ lookup["collections"] = "ok" /\ lookup["groups"] = "ok"
  /\ lookup["documents"] = "pending" /\ lookup["users"] = "pending"

\* The user rows C9 says the query selects: those in scope whose normalized
\* name or email contains the normalized query as a literal substring, and
\* all rows in scope when the query is empty or absent.
C9_LiteralUserRows ==
  { u \in Users :
      /\ u.teamId = teamId /\ ~u.suspended /\ IdSatisfies(u.id, userWhere.id)
      /\ Truthy(query) =>
           \/ Contains(Normalize(u.name), Normalize(query))
           \/ Contains(Normalize(u.email), Normalize(query)) }

C9_LiteralGroupRows ==
  { g \in Groups :
      /\ g.teamId = teamId /\ ~g.disableMentions /\ IdSatisfies(g.id, groupWhere.id)
      /\ Truthy(query) => Contains(Normalize(g.name), Normalize(query)) }

\* C9: a non-empty query selects exactly the rows whose normalized name (for
\* users also email) contains the normalized query as a literal substring,
\* also for queries made of '%' or '_'; an empty or absent query filters
\* nothing.
C9_LiteralSubstringMatch ==
  /\ lookup["users"] = "ok" =>
       \E ord \in NameOrders(C9_LiteralUserRows) :
         result["users"] = Ids(Slice(ord, offset, limit))
  /\ lookup["groups"] = "ok" =>
       \E ord \in NameOrders(C9_LiteralGroupRows) :
         result["groups"] = Ids(Slice(ord, offset, limit))

\* C10: for an unrestricted actor with no query the users of the envelope
\* are the window [offset, offset+limit) of the name-ascending list of the
\* non-suspended users of the actor's team, in that order, whatever the
\* memberships are, and the pagination field is the request's.
C10_UnrestrictedWindow ==
  (Returned /\ ~Restricted /\ ~Truthy(query)) =>
    /\ \E ord \in NameOrders({u \in Users : u.teamId = teamId /\ ~u.suspended}) :
         ReturnedUserIds = Ids(Slice(ord, offset, limit))
    /\ body[1].pagination = [offset |-> offset, limit |-> limit]

\* A Member with groups asks without a query past the first row and gets a
\* full window.
C10_Witness ==
  /\ Returned /\ role = "Member" /\ query = NoQuery /\ MemberGroups # {}
  /\ offset > 0
  /\ Len(ReturnedUserIds) = limit /\ limit > 1

====
